---- MODULE Spec2Model ----
(***************************************************************************)
(* gif-clock (src/main.c): load_gif decodes bg.gif with giflib and         *)
(* composites one RGBA texture per sub-image; main then plays the          *)
(* animation with update_gif / render_gif until the window is closed.      *)
(*                                                                         *)
(* A surface is the flat sequence of its pixels, row after row (offset     *)
(* ty * w + tx of the C code is position ty * w + tx + 1 here).  A pixel   *)
(* is a record [rgb, a]: the colour written and the alpha byte.            *)
(***************************************************************************)
EXTENDS Integers, Sequences, FiniteSets, TLC

\* ------------------------------------------------------------------ bounds
\* Largest number of sub-images of a container.
MaxFrames == 3
\* Logical screen of the containers.
CanvasW == 2
CanvasH == 2
\* Last value the SDL tick counter takes.
MaxTicks == 150

\* --------------------------------------------------- giflib / SDL constants
DISPOSAL_UNSPECIFIED == 0
DISPOSE_DO_NOT == 1
DISPOSE_BACKGROUND == 2
DISPOSE_PREVIOUS == 3
NO_TRANSPARENT_COLOR == -1
GIF_ERROR == 0
GIF_OK == 1
\* a NULL ColorMapObject*; a colour map is the non-empty sequence of its Colors
NULL == <<>>
\* the value of an SDL_Texture* slot or surface that was never assigned
Uninit == <<>>

\* the pixel SDL_MapRGBA(format, r, g, b, a) packs
MapRGBA(rgb, a) == [rgb |-> rgb, a |-> a]
\* SDL_MapRGBA(frame_surface->format, 0, 0, 0, 0)
Transparent == MapRGBA("black", 0)

\* what a read past the end of a colour table may find
JunkColors == {"red", "grey"}
\* how far the clock moves between two passes of main's loop
TickSteps == {30, 120}

VARIABLES
    gif,            \* the container as giflib presents it (the input)
    gif_state,      \* "unopened", "open", "closed": the GifFileType handle
    pc,             \* position of main / load_gif
    i,              \* load_gif's loop index
    animation,      \* "unset", "NULL", "alloc", "freed": the GIFAnimation*
    frames,         \* animation->frames: one surface content per slot
    delays,         \* animation->delays
    frame_count,    \* animation->frame_count
    current_frame,  \* animation->current_frame
    last_update,    \* animation->last_update
    base_surface,   \* load_gif's base_surface (no surface once it is freed)
    canvas,         \* per sub-image: frame_surface just before the draw loop
    lookups,        \* per sub-image: the indices used on color_map->Colors
    color_maps,     \* per sub-image: the colour map the loop body resolved
    ticks,          \* SDL_GetTicks()
    shown,          \* the texture last handed to SDL_RenderCopy by render_gif
    quit,           \* main's quit flag
    now,            \* update_gif's now
    elapsed,        \* update_gif's elapsed
    entered,        \* elapsed as update_gif first computed it (line 103)
    advances        \* passes of update_gif's loop body in the current call

vars == <<gif, gif_state, pc, i, animation, frames, delays, frame_count,
          current_frame, last_update, base_surface, canvas, lookups,
          color_maps, ticks, shown, quit, now, elapsed, entered, advances>>

\* update_gif's locals
update_vars == <<now, elapsed, entered, advances>>

\* ------------------------------------------------------------- surfaces
\* SDL_CreateRGBSurfaceWithFormat: a w*h surface with zeroed pixels
CreateRGBSurface(w, h) == [k \in 1..(w * h) |-> Transparent]

\* SDL_FillRect(surface, NULL, pixel)
FillRect(surface, pixel) == [k \in DOMAIN surface |-> pixel]

\* SDL_BlitSurface(src, NULL, dst, NULL) between two RGBA32 surfaces of the
\* same size; both carry SDL_BLENDMODE_BLEND (the default of a surface with
\* an alpha mask): an opaque source pixel replaces the destination, a
\* source pixel of alpha 0 leaves it.
BlitSurface(src, dst) ==
    [k \in DOMAIN dst |-> IF src[k].a = 255 THEN src[k] ELSE dst[k]]

\* color_map->Colors[color_index]; past ColorCount the read leaves the
\* array and yields whatever the heap holds there (junk)
Colors(color_map, color_index, junk) ==
    IF color_index < Len(color_map) THEN color_map[color_index + 1] ELSE junk

\* the colour map of line 52
ResolveColorMap(g, frame) ==
    IF g.SColorMap # NULL THEN g.SColorMap ELSE frame.ImageDesc.ColorMap

\* DrawPixel writing the transparent index like any other
DrawPixelOpaque(surface, w, h, frame, gcb, color_map, junk, k) ==
    LET x == k % frame.ImageDesc.Width
        y == k \div frame.ImageDesc.Width
        color_index == frame.RasterBits[y * frame.ImageDesc.Width + x + 1]
        tx == frame.ImageDesc.Left + x
        ty == frame.ImageDesc.Top + y
    IN  IF tx < w /\ ty < h
        THEN [surface EXCEPT ![ty * w + tx + 1] =
                  MapRGBA(Colors(color_map, color_index, junk), 255)]
        ELSE surface

\* DrawPixel with the destination's row and column exchanged
DrawPixelTransposed(surface, w, h, frame, gcb, color_map, junk, k) ==
    LET x == k % frame.ImageDesc.Width
        y == k \div frame.ImageDesc.Width
        color_index == frame.RasterBits[y * frame.ImageDesc.Width + x + 1]
        tx == frame.ImageDesc.Left + x
        ty == frame.ImageDesc.Top + y
    IN  IF color_index = gcb.TransparentColor THEN surface
        ELSE IF tx < w /\ ty < h
             THEN [surface EXCEPT ![tx * h + ty + 1] =
                       MapRGBA(Colors(color_map, color_index, junk), 255)]
             ELSE surface

\* DrawPixel clipping by the offset into the pixel buffer
DrawPixelByOffset(surface, w, h, frame, gcb, color_map, junk, k) ==
    LET x == k % frame.ImageDesc.Width
        y == k \div frame.ImageDesc.Width
        color_index == frame.RasterBits[y * frame.ImageDesc.Width + x + 1]
        tx == frame.ImageDesc.Left + x
        ty == frame.ImageDesc.Top + y
    IN  IF color_index = gcb.TransparentColor THEN surface
        ELSE IF ty * w + tx < w * h
             THEN [surface EXCEPT ![ty * w + tx + 1] =
                       MapRGBA(Colors(color_map, color_index, junk), 255)]
             ELSE surface

\* one iteration of the draw loop body (lines 71-81) for raster position k
\* (k = y * Width + x), returning the surface
DrawPixel(surface, w, h, frame, gcb, color_map, junk, k) ==
    LET x == k % frame.ImageDesc.Width
        y == k \div frame.ImageDesc.Width
        color_index == frame.RasterBits[y * frame.ImageDesc.Width + x + 1]
        tx == frame.ImageDesc.Left + x
        ty == frame.ImageDesc.Top + y
    IN  IF color_index = gcb.TransparentColor THEN surface
        ELSE IF tx < w /\ ty < h
             THEN [surface EXCEPT ![ty * w + tx + 1] =
                       MapRGBA(Colors(color_map, color_index, junk), 255)]
             ELSE surface

\* the draw loops of lines 69-83, from raster position k on
RECURSIVE DrawFrame(_, _, _, _, _, _, _, _)
DrawFrame(surface, w, h, frame, gcb, color_map, junk, k) ==
    IF k >= frame.ImageDesc.Width * frame.ImageDesc.Height THEN surface
    ELSE DrawFrame(DrawPixel(surface, w, h, frame, gcb, color_map, junk, k),
                   w, h, frame, gcb, color_map, junk, k + 1)

\* the values of color_index that reach line 74 while the frame is drawn
ColorLookups(frame, gcb) ==
    {frame.RasterBits[k] : k \in 1..(frame.ImageDesc.Width * frame.ImageDesc.Height)}
        \ {gcb.TransparentColor}

\* DelayMs without the floor for a zero delay
DelayMsNoFloor(gcb) == gcb.DelayTime * 10

\* line 50
DelayMs(gcb) == IF gcb.DelayTime > 0 THEN gcb.DelayTime * 10 ELSE 100

\* DGifSlurp: GIF_ERROR for an unreadable body, and (giflib's check at the
\* end of DGifSlurp, D_GIF_ERR_NO_IMAG_DSCR) for a container without images
DGifSlurp(g) == IF g.ImageCount = 0 THEN GIF_ERROR ELSE g.slurp

\* SlurpFailed with DGifSlurp's result ignored
SlurpUnchecked(g) == FALSE

\* line 28: the body could not be read
SlurpFailed(g) == DGifSlurp(g) # GIF_OK

\* ------------------------------------------------------------ load_gif
\* lines 22-26
OpenGif ==
    /\ pc = "open"
    /\ IF gif.open
       THEN /\ gif_state' = "open"
            /\ pc' = "slurp"
            /\ UNCHANGED animation
       ELSE /\ animation' = "NULL"
            /\ pc' = "main"
            /\ UNCHANGED gif_state
    /\ UNCHANGED <<gif, i, frames, delays, frame_count, current_frame,
                   last_update, base_surface, canvas, lookups, color_maps,
                   ticks, shown, quit,
                   now, elapsed, entered, advances>>

\* lines 28-31
SlurpGif ==
    /\ pc = "slurp"
    /\ IF SlurpFailed(gif)
       THEN /\ gif_state' = "closed"
            /\ animation' = "NULL"
            /\ pc' = "main"
       ELSE /\ pc' = "alloc"
            /\ UNCHANGED <<gif_state, animation>>
    /\ UNCHANGED <<gif, i, frames, delays, frame_count, current_frame,
                   last_update, base_surface, canvas, lookups, color_maps,
                   ticks, shown, quit,
                   now, elapsed, entered, advances>>

\* lines 33-46: the animation object, its arrays, the base surface, i = 0
AllocAnimation ==
    /\ pc = "alloc"
    /\ animation' = "alloc"
    /\ frame_count' = gif.ImageCount
    /\ current_frame' = 0
    /\ last_update' = ticks
    /\ frames' = [k \in 1..gif.ImageCount |-> Uninit]
    /\ delays' = [k \in 1..gif.ImageCount |-> 0]
    /\ base_surface' = CreateRGBSurface(gif.SWidth, gif.SHeight)
    /\ i' = 0
    /\ pc' = "frame"
    /\ UNCHANGED <<gif, gif_state, canvas, lookups, color_maps, ticks, shown,
                   quit,
                   now, elapsed, entered, advances>>

\* frame_surface as the draw loop finds it (lines 59-66)
FrameSurface(g, n, gcb, base) ==
    LET blank == FillRect(CreateRGBSurface(g.SWidth, g.SHeight), Transparent)
    IN  IF n > 0 /\ gcb.DisposalMode = DISPOSE_DO_NOT
        THEN BlitSurface(base, blank)
        ELSE blank

\* UpdateBase keeping every frame
UpdateBaseAlways(gcb, frame_surface, base) == BlitSurface(frame_surface, base)

\* base_surface after lines 85-88
UpdateBase(gcb, frame_surface, base) ==
    IF gcb.DisposalMode = DISPOSE_DO_NOT
    THEN BlitSurface(frame_surface, base)
    ELSE base

\* one pass of the loop body, lines 47-94, for sub-image i
LoadFrame ==
    /\ pc = "frame"
    /\ i < gif.ImageCount
    /\ LET frame == gif.SavedImages[i + 1]
           gcb == frame.gcb
           color_map == ResolveColorMap(gif, frame)
       IN  /\ delays' = [delays EXCEPT ![i + 1] = DelayMs(gcb)]
           /\ color_maps' = Append(color_maps, color_map)
           /\ IF color_map = NULL
              THEN /\ canvas' = Append(canvas, Uninit)
                   /\ lookups' = Append(lookups, {})
                   /\ UNCHANGED <<frames, base_surface>>
              ELSE \E junk \in JunkColors :
                     LET before == FrameSurface(gif, i, gcb, base_surface)
                         frame_surface ==
                             DrawFrame(before, gif.SWidth, gif.SHeight, frame,
                                       gcb, color_map, junk, 0)
                     IN  /\ canvas' = Append(canvas, before)
                         /\ lookups' = Append(lookups, ColorLookups(frame, gcb))
                         /\ base_surface' =
                                UpdateBase(gcb, frame_surface, base_surface)
                         /\ frames' = [frames EXCEPT ![i + 1] = frame_surface]
    /\ i' = i + 1
    /\ UNCHANGED <<gif, gif_state, pc, animation, frame_count, current_frame,
                   last_update, ticks, shown, quit,
                   now, elapsed, entered, advances>>

\* lines 96-98, once the loop has ended
ReturnAnimation ==
    /\ pc = "frame"
    /\ i >= gif.ImageCount
    /\ base_surface' = Uninit
    /\ gif_state' = "closed"
    /\ pc' = "main"
    /\ UNCHANGED <<gif, i, animation, frames, delays, frame_count,
                   current_frame, last_update, canvas, lookups, color_maps,
                   ticks, shown, quit,
                   now, elapsed, entered, advances>>

\* ---------------------------------------------------------------- main
\* lines 157-164
LoadFailed ==
    /\ pc = "main"
    /\ animation = "NULL"
    /\ pc' = "exit"
    /\ UNCHANGED <<gif, gif_state, i, animation, frames, delays, frame_count,
                   current_frame, last_update, base_surface, canvas, lookups,
                   color_maps, ticks, shown, quit,
                   now, elapsed, entered, advances>>

\* lines 166-182: the font opens or main returns 1
OpenFont ==
    /\ pc = "main"
    /\ animation # "NULL"
    /\ \E font \in BOOLEAN : pc' = IF font THEN "update" ELSE "exit"
    /\ UNCHANGED <<gif, gif_state, i, animation, frames, delays, frame_count,
                   current_frame, last_update, base_surface, canvas, lookups,
                   color_maps, ticks, shown, quit,
                   now, elapsed, entered, advances>>

\* NextFrame stepping over a frame
NextFrameSkip(cf, n) == (cf + 2) % n

\* line 107
NextFrame(cf, n) == (cf + 1) % n

\* Remaining without the subtraction
RemainingKept(e, delay) == e

\* line 106
Remaining(e, delay) == e - delay

\* RestartTime dropping what is left of the elapsed time
RestartTimeNow(t, e) == t

\* line 108. The Uint32 subtractions of update_gif never wrap here:
\* last_update <= now <= MaxTicks.
RestartTime(t, e) == t - e

\* lines 183-187 and update_gif's lines 102-103: events are polled, the
\* clock has moved on by d since the last pass, elapsed is computed
UpdateGif ==
    /\ pc = "update"
    /\ \E d \in TickSteps, ev \in BOOLEAN :
         /\ ticks + d <= MaxTicks
         /\ ticks' = ticks + d
         /\ quit' = (quit \/ ev)
         /\ now' = ticks + d
         /\ elapsed' = ticks + d - last_update
         /\ entered' = ticks + d - last_update
    /\ advances' = 0
    /\ pc' = "advance"
    /\ UNCHANGED <<gif, gif_state, i, animation, frames, delays, frame_count,
                   current_frame, last_update, base_surface, canvas, lookups,
                   color_maps, shown>>

\* the loop of lines 105-109: one test of its condition, and one pass of its
\* body or the return to main. With no frame at all delays[0] is read past
\* the (empty) array: the loop is left or the body divides by zero.
UpdateLoop ==
    /\ pc = "advance"
    /\ IF frame_count = 0
       THEN /\ \E fpe \in BOOLEAN : pc' = IF fpe THEN "crash" ELSE "render"
            /\ UNCHANGED <<current_frame, last_update, update_vars>>
       ELSE IF elapsed >= delays[current_frame + 1]
       THEN /\ elapsed' = Remaining(elapsed, delays[current_frame + 1])
            /\ current_frame' = NextFrame(current_frame, frame_count)
            /\ last_update' = RestartTime(now, elapsed')
            /\ advances' = advances + 1
            /\ UNCHANGED <<pc, now, entered>>
       ELSE /\ pc' = "render"
            /\ now' = 0
            /\ elapsed' = 0
            /\ entered' = 0
            /\ advances' = 0
            /\ UNCHANGED <<current_frame, last_update>>
    /\ UNCHANGED <<gif, gif_state, i, animation, frames, delays, frame_count,
                   base_surface, canvas, lookups, color_maps, ticks, shown,
                   quit>>

\* render_gif (112-114), up to the loop test of line 182. A slot that was
\* never assigned holds an indeterminate pointer: SDL_RenderCopy rejects it
\* and nothing is drawn, or the process dies on it.
RenderGif ==
    /\ pc = "render"
    /\ LET texture == IF current_frame < Len(frames)
                      THEN frames[current_frame + 1] ELSE Uninit
       IN  /\ shown' = texture
           /\ IF texture = Uninit
              THEN \E dies \in BOOLEAN :
                       pc' = IF dies THEN "crash"
                             ELSE IF quit THEN "cleanup" ELSE "update"
              ELSE pc' = IF quit THEN "cleanup" ELSE "update"
    /\ UNCHANGED <<gif, gif_state, i, animation, frames, delays, frame_count,
                   current_frame, last_update, base_surface, canvas, lookups,
                   color_maps, ticks, quit,
                   now, elapsed, entered, advances>>

\* lines 215-229. SDL_DestroyTexture on a slot the loader never assigned
\* reads an uninitialised pointer: the call returns or the process dies.
Cleanup ==
    /\ pc = "cleanup"
    /\ IF \E k \in 1..frame_count : frames[k] = Uninit
       THEN \E dies \in BOOLEAN :
                /\ pc' = IF dies THEN "crash" ELSE "exit"
                /\ animation' = IF dies THEN animation ELSE "freed"
       ELSE /\ pc' = "exit"
            /\ animation' = "freed"
    /\ UNCHANGED <<gif, gif_state, i, frames, delays, frame_count,
                   current_frame, last_update, base_surface, canvas, lookups,
                   color_maps, ticks, shown, quit,
                   now, elapsed, entered, advances>>

\* ------------------------------------------------------------ containers
GlobalColors == <<"red", "blue">>
LocalColors == <<"green", "white">>

\* a SavedImage with its graphics control block
Image(l, t, w, h, cmap, raster, disp, transp, delay) ==
    [ImageDesc |-> [Left |-> l, Top |-> t, Width |-> w, Height |-> h,
                    ColorMap |-> cmap],
     RasterBits |-> raster,
     gcb |-> [DisposalMode |-> disp, TransparentColor |-> transp,
              DelayTime |-> delay]]

\* a GifFileType: open / slurp say whether DGifOpenFileName and the read of
\* the body succeed
Container(open, slurp, cmap, images) ==
    [open |-> open, slurp |-> slurp, SWidth |-> CanvasW, SHeight |-> CanvasH,
     SColorMap |-> cmap, ImageCount |-> Len(images), SavedImages |-> images]

\* placement rectangles: the whole screen, its last pixel, and a rectangle
\* that starts in the last column and hangs one column over the right edge
Full == [l |-> 0, t |-> 0, w |-> CanvasW, h |-> CanvasH]
Corner == [l |-> CanvasW - 1, t |-> CanvasH - 1, w |-> 1, h |-> 1]
Overhang == [l |-> CanvasW - 1, t |-> 0, w |-> 2, h |-> CanvasH]

\* rasters of n indices: all a, or a on the first half and b on the rest
Uniform(n, a) == [k \in 1..n |-> a]
Split(n, a, b) == [k \in 1..n |-> IF k <= (n + 1) \div 2 THEN a ELSE b]

DisposalModes ==
    {DISPOSAL_UNSPECIFIED, DISPOSE_DO_NOT, DISPOSE_BACKGROUND, DISPOSE_PREVIOUS}

\* sub-images of the disposal sequences: a red screen or a blue last pixel,
\* under any disposal mode
PlainImages ==
    {Image(Full.l, Full.t, Full.w, Full.h, NULL,
           Uniform(Full.w * Full.h, 0), d, NO_TRANSPARENT_COLOR, 0)
         : d \in DisposalModes}
    \cup {Image(Corner.l, Corner.t, Corner.w, Corner.h, NULL,
                Uniform(1, 1), d, NO_TRANSPARENT_COLOR, 0)
              : d \in DisposalModes}

\* every sequence of 1..MaxFrames plain sub-images over a global colour table
DisposalContainers ==
    {Container(TRUE, GIF_OK, GlobalColors, images)
         : images \in UNION {[1..n -> PlainImages] : n \in 1..MaxFrames}}

\* rasters of n indices over 0, 1 and 2 (2 is past both colour tables)
Rasters(n) ==
    {Uniform(n, 0), Uniform(n, 2), Split(n, 0, 1), Split(n, 1, 0),
     Split(n, 1, 2), Split(n, 2, 0)}

\* sub-images that vary what is drawn: each rectangle with each of its
\* rasters, transparent index absent, 0 or 2, with or without a local
\* colour table
DrawnImages ==
    {Image(r.l, r.t, r.w, r.h, cmap, raster, DISPOSE_DO_NOT, transp, 0)
         : r \in {Full, Corner, Overhang},
           cmap \in {NULL, LocalColors},
           raster \in UNION {Rasters(q.w * q.h) : q \in {Full, Corner, Overhang}},
           transp \in {NO_TRANSPARENT_COLOR, 0, 2}}

\* sub-images that vary the delay: full-screen rasters with delays 1, 5 and
\* 65535 (the largest a graphics control block holds)
TimedImages ==
    {Image(Full.l, Full.t, Full.w, Full.h, NULL, raster, DISPOSE_DO_NOT,
           NO_TRANSPARENT_COLOR, delay)
         : raster \in {Uniform(Full.w * Full.h, 0), Split(Full.w * Full.h, 0, 1),
                       Split(Full.w * Full.h, 1, 0)},
           delay \in {1, 5, 65535}}

DetailedImages == DrawnImages \cup TimedImages

\* the kept sub-images that come before a detailed one
KeptImages == {im \in PlainImages : im.gcb.DisposalMode = DISPOSE_DO_NOT}

\* a detailed sub-image after up to MaxFrames - 1 kept ones, with or without
\* a global colour table
DetailedContainers ==
    {Container(TRUE, GIF_OK, cmap, Append(before, im))
         : cmap \in {NULL, GlobalColors},
           before \in UNION {[1..n -> KeptImages] : n \in 0..(MaxFrames - 1)},
           im \in {d \in DetailedImages :
                       Len(d.RasterBits) = d.ImageDesc.Width * d.ImageDesc.Height}}

\* a file that cannot be opened, a body that cannot be read, no image at all
BrokenContainers ==
    {Container(FALSE, GIF_ERROR, NULL, <<>>),
     Container(TRUE, GIF_ERROR, GlobalColors, <<>>),
     Container(TRUE, GIF_ERROR, GlobalColors,
               <<Image(0, 0, 1, 1, NULL, <<0>>, DISPOSAL_UNSPECIFIED,
                       NO_TRANSPARENT_COLOR, 0)>>),
     Container(TRUE, GIF_OK, GlobalColors, <<>>),
     Container(TRUE, GIF_OK, NULL, <<>>)}

GifFiles == DisposalContainers \cup DetailedContainers \cup BrokenContainers

\* SDL_GetTicks() when load_gif is called
StartTicks == 0

\* main at line 156, about to call load_gif
Init ==
    /\ gif \in GifFiles
    /\ gif_state = "unopened"
    /\ pc = "open"
    /\ i = 0
    /\ animation = "unset"
    /\ frames = <<>>
    /\ delays = <<>>
    /\ frame_count = 0
    /\ current_frame = 0
    /\ last_update = 0
    /\ base_surface = Uninit
    /\ canvas = <<>>
    /\ lookups = <<>>
    /\ color_maps = <<>>
    /\ ticks = StartTicks
    /\ shown = Uninit
    /\ quit = FALSE
    /\ now = 0
    /\ elapsed = 0
    /\ entered = 0
    /\ advances = 0

Next ==
    \/ OpenGif
    \/ SlurpGif
    \/ AllocAnimation
    \/ LoadFrame
    \/ ReturnAnimation
    \/ LoadFailed
    \/ OpenFont
    \/ UpdateGif
    \/ UpdateLoop
    \/ RenderGif
    \/ Cleanup

Spec == Init /\ [][Next]_vars

\* ------------------------------------------------------------ properties
\* load_gif has returned to main
Returned ==
    pc \in {"main", "update", "advance", "render", "cleanup", "exit", "crash"}

\* the sub-images the loop body has gone through so far
Processed == 1..Len(canvas)

\* canvas coordinates of position p of a surface
PixelX(p) == (p - 1) % gif.SWidth
PixelY(p) == (p - 1) \div gif.SWidth

\* position p lies in the placement rectangle of sub-image f
InRect(f, p) ==
    /\ PixelX(p) - f.ImageDesc.Left \in 0..(f.ImageDesc.Width - 1)
    /\ PixelY(p) - f.ImageDesc.Top \in 0..(f.ImageDesc.Height - 1)

\* the raster index sub-image f holds for position p of its rectangle
RasterAt(f, p) ==
    f.RasterBits[(PixelY(p) - f.ImageDesc.Top) * f.ImageDesc.Width
                 + (PixelX(p) - f.ImageDesc.Left) + 1]

\* C1: every processed sub-image resolves its indices through its local
\* colour table when it has one, and through the global table only when it
\* has none.
C1_LocalTableFirst ==
    \A n \in Processed :
        LET f == gif.SavedImages[n]
        IN  /\ f.ImageDesc.ColorMap # NULL
                => color_maps[n] = f.ImageDesc.ColorMap
            /\ (f.ImageDesc.ColorMap = NULL /\ gif.SColorMap # NULL)
                => color_maps[n] = gif.SColorMap

\* C2: when the previous sub-image's disposal mode is None or DoNotDispose,
\* the canvas a sub-image is drawn onto is the frame emitted for the
\* previous one.
C2_KeptCanvas ==
    \A n \in Processed :
        (n > 1 /\ gif.SavedImages[n - 1].gcb.DisposalMode
                      \in {DISPOSAL_UNSPECIFIED, DISPOSE_DO_NOT})
            => canvas[n] = frames[n - 1]

\* C3: when the previous sub-image's disposal mode is RestoreToBackground,
\* the canvas a sub-image is drawn onto has alpha 0 at every pixel of the
\* previous sub-image's rectangle.
C3_BackgroundCleared ==
    \A n \in Processed :
        (n > 1 /\ gif.SavedImages[n - 1].gcb.DisposalMode = DISPOSE_BACKGROUND)
            => \A p \in DOMAIN canvas[n] :
                   InRect(gif.SavedImages[n - 1], p) => canvas[n][p].a = 0

\* C4: when sub-image n >= 1 (counted from 0) has disposal mode
\* RestoreToPrevious, the canvas the next sub-image is drawn onto equals the
\* canvas as it was just before sub-image n was drawn.
C4_PreviousRestored ==
    \A n \in Processed :
        (n > 2 /\ gif.SavedImages[n - 1].gcb.DisposalMode = DISPOSE_PREVIOUS)
            => canvas[n] = canvas[n - 1]

\* C5: drawing a sub-image leaves every pixel outside its rectangle and
\* every pixel whose raster index is the transparent index as it was; a
\* sub-image that is transparent everywhere emits the canvas unchanged; with
\* no transparent index every raster value is written, opaque. Read while
\* load_gif is in its loop: nothing writes a frame or a canvas afterwards.
C5_TransparentKept ==
    \A n \in Processed :
        (pc = "frame" /\ canvas[n] # Uninit) =>
            LET f == gif.SavedImages[n]
                t == f.gcb.TransparentColor
            IN  /\ \A p \in DOMAIN canvas[n] :
                       (~InRect(f, p) \/ RasterAt(f, p) = t)
                           => frames[n][p] = canvas[n][p]
                /\ (\A k \in DOMAIN f.RasterBits : f.RasterBits[k] = t)
                       => frames[n] = canvas[n]
                /\ t = NO_TRANSPARENT_COLOR
                       => \A p \in DOMAIN canvas[n] :
                              InRect(f, p)
                                  => /\ frames[n][p].a = 255
                                     /\ RasterAt(f, p) < Len(color_maps[n])
                                            => frames[n][p].rgb
                                                 = color_maps[n][RasterAt(f, p) + 1]

\* a sub-image drawn over an accumulated canvas keeps an opaque pixel under
\* a transparent index and replaces another pixel
C5_Witness ==
    \E n \in Processed :
        /\ n > 1
        /\ canvas[n] # Uninit
        /\ LET f == gif.SavedImages[n]
           IN  /\ \E p \in DOMAIN canvas[n] :
                      /\ InRect(f, p)
                      /\ RasterAt(f, p) = f.gcb.TransparentColor
                      /\ canvas[n][p].a = 255
                      /\ frames[n][p] = canvas[n][p]
               /\ \E q \in DOMAIN canvas[n] :
                      /\ InRect(f, q)
                      /\ RasterAt(f, q) # f.gcb.TransparentColor
                      /\ frames[n][q] # canvas[n][q]

\* C6: the stored duration is ten times the delay for a positive delay and
\* 100 for a zero delay, hence never zero or negative.
C6_Duration ==
    \A n \in Processed :
        LET d == gif.SavedImages[n].gcb.DelayTime
        IN  /\ d > 0 => delays[n] = d * 10
            /\ d = 0 => delays[n] = 100
            /\ delays[n] > 0

\* a zero delay stored as 100 ms beside the largest delay stored as 655350 ms
C6_Witness ==
    /\ \E n \in Processed :
           gif.SavedImages[n].gcb.DelayTime = 0 /\ delays[n] = 100
    /\ \E n \in Processed :
           gif.SavedImages[n].gcb.DelayTime = 65535 /\ delays[n] = 655350

\* a container of one sub-image that covers the screen, with a global colour
\* table only, no transparent index and every raster index in the table
SingleFullFrame ==
    /\ gif.open
    /\ gif.slurp = GIF_OK
    /\ gif.ImageCount = 1
    /\ gif.SColorMap # NULL
    /\ LET f == gif.SavedImages[1]
       IN  /\ f.ImageDesc.ColorMap = NULL
           /\ f.gcb.TransparentColor = NO_TRANSPARENT_COLOR
           /\ f.ImageDesc.Left = 0 /\ f.ImageDesc.Top = 0
           /\ f.ImageDesc.Width = gif.SWidth /\ f.ImageDesc.Height = gif.SHeight
           /\ \A k \in DOMAIN f.RasterBits : f.RasterBits[k] < Len(gif.SColorMap)

\* the one emitted frame holds, at (x, y), the colour of table entry
\* raster[y * width + x], opaque
SingleFramePixels ==
    /\ animation # "NULL"
    /\ frame_count = 1
    /\ Len(frames) = 1
    /\ \A y \in 0..(gif.SHeight - 1), x \in 0..(gif.SWidth - 1) :
           frames[1][y * gif.SWidth + x + 1]
               = MapRGBA(gif.SColorMap[gif.SavedImages[1].RasterBits
                                           [y * gif.SWidth + x + 1] + 1], 255)

\* C7 as stated: such a container loads as one frame with those pixels and a
\* duration of delay * 10 ms.
C7_AsStated ==
    (Returned /\ SingleFullFrame)
        => /\ SingleFramePixels
           /\ delays[1] = gif.SavedImages[1].gcb.DelayTime * 10

\* C7 amended: such a container loads as one frame with those pixels and a
\* duration of delay * 10 ms for a positive delay, 100 ms for a zero delay.
C7_SingleFrame ==
    (Returned /\ SingleFullFrame)
        => /\ SingleFramePixels
           /\ delays[1] = IF gif.SavedImages[1].gcb.DelayTime > 0
                          THEN gif.SavedImages[1].gcb.DelayTime * 10
                          ELSE 100

\* the scenario's shape: first half of the raster index 0, the rest index 1,
\* delay 5, loaded as red ... blue and 50 ms
C7_Witness ==
    /\ Returned
    /\ SingleFullFrame
    /\ gif.SavedImages[1].RasterBits = Split(gif.SWidth * gif.SHeight, 0, 1)
    /\ gif.SavedImages[1].gcb.DelayTime = 5
    /\ delays = <<50>>
    /\ frames[1][1] = MapRGBA("red", 255)
    /\ frames[1][gif.SWidth * gif.SHeight] = MapRGBA("blue", 255)

C9_MissingTableFails ==
    (Returned /\ gif.open /\ gif.SColorMap = NULL
       /\ \E n \in 1..gif.ImageCount : gif.SavedImages[n].ImageDesc.ColorMap = NULL)
        => animation = "NULL"

\* C10: the colour table is never indexed at or past its length, and a
\* raster index at or past the length of the resolved table that is not the
\* transparent index makes load_gif return no animation.
C10_IndexInRange ==
    /\ \A n \in Processed : \A c \in lookups[n] : c < Len(color_maps[n])
    /\ (Returned /\ gif.open /\ DGifSlurp(gif) = GIF_OK
          /\ \E n \in 1..gif.ImageCount :
                 LET f == gif.SavedImages[n]
                     m == ResolveColorMap(gif, f)
                 IN  /\ m # NULL
                     /\ \E k \in DOMAIN f.RasterBits :
                            /\ f.RasterBits[k] >= Len(m)
                            /\ f.RasterBits[k] # f.gcb.TransparentColor)
           => animation = "NULL"

\* C11: a sub-image whose rectangle exceeds the logical screen makes loading
\* fail: every sub-image of a returned animation lies within the canvas.
C11_RectWithinScreen ==
    (Returned /\ animation # "NULL")
        => \A n \in 1..gif.ImageCount :
               LET d == gif.SavedImages[n].ImageDesc
               IN  /\ d.Left + d.Width <= gif.SWidth
                   /\ d.Top + d.Height <= gif.SHeight

\* C12: a returned animation holds one produced frame and one duration per
\* sub-image, in source order, no slot is left unassigned, and render_gif
\* never presents an unproduced frame.
C12_EveryFrameProduced ==
    /\ (Returned /\ animation # "NULL")
           => /\ frame_count = gif.ImageCount
              /\ Len(frames) = gif.ImageCount
              /\ Len(delays) = gif.ImageCount
              /\ \A k \in 1..gif.ImageCount :
                     /\ frames[k] # Uninit
                     /\ delays[k] = DelayMs(gif.SavedImages[k].gcb)
    /\ pc = "render"
           => /\ current_frame < Len(frames)
              /\ frames[current_frame + 1] # Uninit

\* C13: while the animation plays, 0 <= current_frame < frame_count; every
\* pass of update_gif's loop moves current_frame to (current_frame + 1) mod
\* frame_count, so the last frame is followed by frame 0, and nothing else
\* moves current_frame.
C13_CyclicAdvance ==
    [][/\ (animation' = "alloc" /\ frame_count' >= 1)
              => (current_frame' >= 0 /\ current_frame' < frame_count')
       /\ (pc = "advance" /\ pc' = "advance")
              => current_frame' = IF current_frame = frame_count - 1
                                  THEN 0 ELSE current_frame + 1
       /\ (pc # "advance" /\ animation = "alloc")
              => current_frame' = current_frame]_vars

\* the loop has gone once round a container of two or more frames
C13_Witness ==
    /\ pc = "advance"
    /\ frame_count >= 2
    /\ advances = frame_count
    /\ current_frame = 0

RECURSIVE DelaySum(_)
\* delays[0] + ... + delays[k-1]
DelaySum(k) == IF k = 0 THEN 0 ELSE DelaySum(k - 1) + delays[k]

\* C14: after each update_gif call at time now, (a) now - last_update is
\* less than delays[current_frame], and (b) current_frame is the k with
\* delays[0]+...+delays[k-1] <= (now - t0) mod T < delays[0]+...+delays[k],
\* T the sum of all delays and t0 the time load_gif returned, however the
\* elapsed time was split between calls.
C14_PlaybackPosition ==
    (pc = "render" /\ frame_count >= 1)
        => /\ ticks - last_update >= 0
           /\ ticks - last_update < delays[current_frame + 1]
           /\ LET at == (ticks - StartTicks) % DelaySum(frame_count)
              IN  /\ DelaySum(current_frame) <= at
                  /\ at < DelaySum(current_frame + 1)

\* half of the second frame's time has passed after an advance
C14_Witness ==
    /\ pc = "render"
    /\ frame_count >= 2
    /\ current_frame = 1
    /\ ticks = 150
    /\ last_update = 100

\* the shortest duration load_gif stores
MinDelay == 10

\* C18: every update_gif call ends: each stored delay is at least 10 ms,
\* each pass of the loop makes elapsed strictly smaller and leaves it
\* non-negative, and the passes of one call number at most
\* elapsed at entry / smallest delay.
C18_LoopTerminates ==
    [][/\ pc' = "advance"
              => \A k \in 1..frame_count' : delays'[k] >= MinDelay
       /\ (pc = "advance" /\ pc' = "advance")
              => /\ elapsed' < elapsed
                 /\ elapsed' >= 0
                 /\ advances' = advances + 1
                 /\ advances' * MinDelay <= entered]_vars

\* a call that makes as many passes as the bound allows
C18_Witness ==
    /\ pc = "advance"
    /\ entered = 120
    /\ advances = 12
    /\ elapsed = 0

\* what load_gif emits for sub-image n + 1 of g over base surface base, were
\* the sub-image's own disposal mode m
EmittedUnder(g, n, base, m, junk) ==
    LET frame == g.SavedImages[n + 1]
        gcb == [frame.gcb EXCEPT !.DisposalMode = m]
    IN  DrawFrame(FrameSurface(g, n, gcb, base), g.SWidth, g.SHeight, frame,
                  gcb, ResolveColorMap(g, frame), junk, 0)

\* C15: the frame emitted for a sub-image does not depend on that
\* sub-image's own disposal mode: with the sub-images before it unchanged,
\* any other mode in its place gives the same frame.
C15_OwnDisposalIrrelevant ==
    [][(pc = "frame" /\ i' = i + 1 /\ frames'[i + 1] # Uninit)
           => \A m \in DisposalModes :
                  \E junk \in JunkColors :
                      frames'[i + 1] = EmittedUnder(gif, i, base_surface, m, junk)]_vars

\* every pixel of a surface is transparent
Blank(surface) == \A p \in DOMAIN surface : surface[p] = Transparent

\* C16: the first sub-image is drawn onto a fully transparent canvas, and
\* the pixels of its frame that were not written (outside its rectangle or
\* holding its transparent index) have alpha 0; when the first sub-image
\* asks for restore-to-previous, the canvas of the second sub-image is that
\* initial transparent canvas. Read while load_gif is in its loop: nothing
\* writes a frame or a canvas afterwards.
C16_FirstCanvas ==
    /\ (pc = "frame" /\ Len(canvas) >= 1 /\ canvas[1] # Uninit)
           => /\ Blank(canvas[1])
              /\ LET f == gif.SavedImages[1]
                 IN  \A p \in DOMAIN frames[1] :
                         (~InRect(f, p) \/ RasterAt(f, p) = f.gcb.TransparentColor)
                             => frames[1][p].a = 0
    /\ (/\ pc = "frame"
        /\ Len(canvas) >= 2
        /\ canvas[2] # Uninit
        /\ gif.SavedImages[1].gcb.DisposalMode = DISPOSE_PREVIOUS)
           => Blank(canvas[2])

\* a first sub-image with restore-to-previous has written a pixel, and a
\* second one that keeps the canvas has been drawn
C16_Witness ==
    /\ pc = "frame"
    /\ Len(canvas) >= 2
    /\ canvas[2] # Uninit
    /\ gif.SavedImages[1].gcb.DisposalMode = DISPOSE_PREVIOUS
    /\ gif.SavedImages[2].gcb.DisposalMode = DISPOSE_DO_NOT
    /\ \E p \in DOMAIN frames[1] : frames[1][p].a = 255
    /\ Blank(canvas[2])

\* C17: drawing changes the canvas only at positions 0 <= tx < width,
\* 0 <= ty < height of the sub-image's rectangle, each at offset
\* ty * width + tx with the colour of the raster value for (tx, ty); raster
\* positions that fall outside the canvas are skipped and change no pixel
\* of another row. Read while load_gif is in its loop: nothing writes a
\* frame or a canvas afterwards.
C17_ClippedToCanvas ==
    \A n \in Processed :
        (pc = "frame" /\ canvas[n] # Uninit) =>
            LET f == gif.SavedImages[n]
                t == f.gcb.TransparentColor
            IN  \A ty \in 0..(gif.SHeight - 1), tx \in 0..(gif.SWidth - 1) :
                    LET p == ty * gif.SWidth + tx + 1
                    IN  /\ frames[n][p] # canvas[n][p] => InRect(f, p)
                        /\ (InRect(f, p) /\ RasterAt(f, p) # t)
                               => /\ frames[n][p].a = 255
                                  /\ RasterAt(f, p) < Len(color_maps[n])
                                         => frames[n][p].rgb
                                                = color_maps[n][RasterAt(f, p) + 1]

\* a sub-image hanging over the right edge has been drawn: a raster value
\* for a column past the edge was skipped, one inside was written
C17_Witness ==
    \E n \in Processed :
        /\ pc = "frame"
        /\ canvas[n] # Uninit
        /\ LET f == gif.SavedImages[n]
           IN  /\ f.ImageDesc.Left + f.ImageDesc.Width > gif.SWidth
               /\ f.ImageDesc.Top + f.ImageDesc.Height <= gif.SHeight
               /\ \A k \in DOMAIN f.RasterBits :
                      f.RasterBits[k] # f.gcb.TransparentColor
               /\ \E p \in DOMAIN frames[n] :
                      /\ InRect(f, p)
                      /\ frames[n][p] # canvas[n][p]

\* C19: when main returns after load_gif gave it an animation (the window
\* was closed, or the font did not load), the textures, the frame and delay
\* arrays and the animation have been released; and whenever load_gif has
\* returned after opening the file, the GIF handle is closed and the base
\* surface freed.
C19_Released ==
    /\ (pc = "exit" /\ animation \in {"alloc", "freed"}) => animation = "freed"
    /\ (Returned /\ gif.open)
           => /\ gif_state = "closed"
              /\ base_surface = Uninit

====
